---- MODULE Spec2Model ----
(***************************************************************************)
(* The YouTube client of youtubeaio/youtube.py: the error classifier, the  *)
(* authenticated request executor, the pagination engine (an async         *)
(* generator) and the session lifecycle, as a state machine.               *)
(*                                                                         *)
(* One engine invocation (one async generator object) is a record of the  *)
(* generator's local variables and its position:                          *)
(*   "idle"   no generator object yet                                      *)
(*   "called" a resource accessor was called; no line of its body ran      *)
(*   "new"    _build_generator(...) was called; no line of its body ran    *)
(*   "fetch"  suspended in `await method(self.session, _url, body_data)`   *)
(*   "yield"  suspended at the yield statement of the items loop           *)
(*   "done"   the body returned (StopAsyncIteration)                       *)
(*   "error"  an exception left the body                                   *)
(***************************************************************************)
EXTENDS Naturals, Sequences, FiniteSets, TLC

(***************************************************************************)
(* Bounds of the model.                                                    *)
(***************************************************************************)
MaxPages == 3
MaxItems == 2
MaxInvocations == 2
MaxCloses == 2
MaxLatePulls == 1
MaxAuthCalls == 2
SharedPages == 2

Gens == {1}

(***************************************************************************)
(* Python values.                                                          *)
(***************************************************************************)
None == "<None>"

EmptyDict == <<>>

\* dict.get(k, default)
Get(d, k, default) ==
    IF k \in DOMAIN d THEN d[k] ELSE default

\* d[k] = v
Put(d, k, v) ==
    [x \in (DOMAIN d) \cup {k} |-> IF x = k THEN v ELSE d[x]]

\* f"{x}" / f"{x!s}"
Str(x) ==
    IF x = None THEN "None" ELSE x

\* raise Type(msg); a raise without arguments carries no message
Exc(type, msg) ==
    [type |-> type, msg |-> msg]

NoExc == Exc(None, None)

JSON == "application/json"

(***************************************************************************)
(* The state.                                                              *)
(***************************************************************************)
VARIABLES
    session,            \* self.session: None or a session object's identity
    close_session,      \* self._close_session
    user_auth_token,    \* self._user_auth_token
    user_auth_refresh_token,    \* self._user_auth_refresh_token
    user_auth_scopes,   \* self._user_auth_scopes
    has_user_auth,      \* self._has_user_auth
    auto_refresh_auth,  \* self.auto_refresh_auth
    authCalls,          \* number of set_user_authentication calls so far
    lastAuth,           \* the last set_user_authentication call: its
                        \* arguments and the exception it raised, if any
    gen,                \* the engine invocations (async generator objects)
    supplied,           \* whether the constructor was given a session
    created,            \* number of ClientSession() constructions by the client
    closedSessions,     \* the session objects that were closed
    closeCalls,         \* number of session.close() calls made by the client
    closeInvoked,       \* number of close() calls made on the client
    invocations         \* number of engine invocations so far

clientVars == <<session, close_session>>
credVars == <<user_auth_token, user_auth_refresh_token, user_auth_scopes,
             has_user_auth, auto_refresh_auth, authCalls, lastAuth>>
sessionVars == <<created, closedSessions, closeCalls>>
vars == <<session, close_session, user_auth_token, user_auth_refresh_token,
          user_auth_scopes, has_user_auth, auto_refresh_auth, authCalls,
          lastAuth, gen, supplied, created, closedSessions, closeCalls,
          closeInvoked, invocations>>

(***************************************************************************)
(* HTTP responses.  A response is its status, its declared content type    *)
(* and its body; a JSON body is kept as the value it decodes to.           *)
(***************************************************************************)
Response(status, content_type, body) ==
    [status |-> status, content_type |-> content_type, body |-> body]

\* await response.json()
Json(response) ==
    response.body

(***************************************************************************)
(* The error classifier, YouTube._check_request_return.  Its outcome is    *)
(* [raise |-> exception] or [return |-> response]; parsed tells whether it *)
(* decoded the body.                                                       *)
(***************************************************************************)
Raise(e, parsed) ==
    [raise |-> e, parsed |-> parsed]

Return(response) ==
    [return |-> response, parsed |-> FALSE]

Raised(outcome) ==
    "raise" \in DOMAIN outcome

\* "Bad Request" + ("" if msg is None else f" - {msg!s}")
BadRequestMessage(msg) ==
    "Bad Request" \o (IF msg = None THEN "" ELSE " - " \o Str(msg))

\* variant: the message of the error object, not of its first entry
ForbiddenMessageTopLevel(response_json) ==
    response_json["error"]["message"]

\* response_json["error"]["errors"][0]["message"]
ForbiddenMessage(response_json) ==
    response_json["error"]["errors"][1]["message"]

\* variant: the 404 test placed after the test for the 4xx range
CheckRequestReturnNotFoundLast(response) ==
    IF response.status = 500
    THEN Raise(Exc("YouTubeBackendError", "Internal Server Error"), FALSE)
    ELSE IF response.status = 400
    THEN Raise(Exc("YouTubeAPIError",
                   BadRequestMessage(Get(Json(response), "message", None))), TRUE)
    ELSE IF response.status = 401
    THEN Raise(Exc("UnauthorizedError", None), FALSE)
    ELSE IF response.status = 403
    THEN Raise(Exc("ForbiddenError", ForbiddenMessage(Json(response))), TRUE)
    ELSE IF 400 <= response.status /\ response.status < 500
    THEN Raise(Exc("YouTubeAPIError", None), FALSE)
    ELSE IF response.status = 404
    THEN Raise(Exc("YouTubeResourceNotFoundError", None), FALSE)
    ELSE Return(response)

CheckRequestReturn(response) ==
    IF response.status = 500
    THEN Raise(Exc("YouTubeBackendError", "Internal Server Error"), FALSE)
    ELSE IF response.status = 400
    THEN Raise(Exc("YouTubeAPIError",
                   BadRequestMessage(Get(Json(response), "message", None))), TRUE)
    ELSE IF response.status = 404
    THEN Raise(Exc("YouTubeResourceNotFoundError", None), FALSE)
    ELSE IF response.status = 401
    THEN Raise(Exc("UnauthorizedError", None), FALSE)
    ELSE IF response.status = 403
    THEN Raise(Exc("ForbiddenError", ForbiddenMessage(Json(response))), TRUE)
    ELSE IF 400 <= response.status /\ response.status < 500
    THEN Raise(Exc("YouTubeAPIError", None), FALSE)
    ELSE Return(response)

(***************************************************************************)
(* The authenticated request executor, YouTube._api_get_request: the       *)
(* request it hands to session.get.  closed records whether the session    *)
(* was already closed when the request was made on it.                     *)
(***************************************************************************)
\* variant: the header holds the token alone
ApiGetRequestBareToken(sess, url, data, token, closed) ==
    [session |-> sess,
     url     |-> url,
     headers |-> [Authorization |-> Str(token)],
     json    |-> data,
     closed  |-> closed]

ApiGetRequest(sess, url, data, token, closed) ==
    [session |-> sess,
     url     |-> url,
     headers |-> [Authorization |-> "Bearer " \o Str(token)],
     json    |-> data,
     closed  |-> closed]

(***************************************************************************)
(* helper.build_url with remove_none=True: the endpoint and the query      *)
(* parameters whose value is not None.                                     *)
(***************************************************************************)
base_url == "https://youtube.googleapis.com/youtube/v3/"

build_url(url, params) ==
    [url   |-> url,
     query |-> [k \in {x \in DOMAIN params : params[x] # None} |-> params[k]]]

(***************************************************************************)
(* The server: what it may answer to the k-th request of a sequence.  The  *)
(* k-th page carries the entries <<k, 1>>, <<k, 2>>, ... and, if it is not *)
(* the last one, the cursor c<k>.  Error bodies have the shapes of the     *)
(* API's response contract.                                                *)
(***************************************************************************)
CursorOf(k) ==
    "c" \o ToString(k)

Entry(k, i) ==
    [id |-> <<k, i>>]

ItemList(k, n) ==
    [i \in 1..n |-> Entry(k, i)]

MorePages(k) ==
    {Response(200, JSON, [items |-> ItemList(k, n), nextPageToken |-> CursorOf(k)]) :
        n \in 0..MaxItems}

LastPages(k) ==
    {Response(200, JSON, [items |-> ItemList(k, n)]) : n \in 0..MaxItems}
    \cup {Response(200, JSON, [nextPageToken |-> None])}

ErrorBody(code, message, reason) ==
    [error |-> [code    |-> code,
                message |-> message,
                errors  |-> <<[message |-> reason, domain |-> "global"],
                              [message |-> "see the console", domain |-> "usageLimits"]>>]]

ForbiddenReasons == {"insufficient permission", "quota exceeded"}

FailedResponses(k) ==
    {Response(500, JSON, ErrorBody(500, "Internal error", "backend error")),
     Response(400, JSON, [message |-> "invalid part"]),
     Response(400, JSON, EmptyDict),
     Response(401, JSON, ErrorBody(401, "Invalid credentials", "auth error")),
     Response(404, "text/html", [text |-> "Not Found"]),
     Response(429, JSON, ErrorBody(429, "Too many requests", "rate limit")),
     Response(503, JSON, ErrorBody(503, "Service unavailable", "backend error")),
     Response(503, "text/html", [text |-> "Service Unavailable"]),
     Response(200, "text/html",
              [items |-> ItemList(k, 1), nextPageToken |-> CursorOf(k)])}
    \cup {Response(403, JSON, ErrorBody(403, "Forbidden", m)) : m \in ForbiddenReasons}

Responses(k) ==
    IF k < MaxPages THEN MorePages(k) \cup LastPages(k) \cup FailedResponses(k)
    ELSE IF k = MaxPages THEN LastPages(k) \cup FailedResponses(k)
    ELSE {}

(***************************************************************************)
(* The pagination engine, YouTube._build_generator.                        *)
(***************************************************************************)
\* The generator object of the id-th call _build_generator("GET", url,
\* url_params, return_type): the arguments, the locals, the position, and
\* the resource accessor that made the call, if any, with its list of IDs;
\* what the consumer and the server have seen of it: out, the records
\* delivered; reqs, the requests made; log, the responses received;
\* timedOut, the request that timed out; late, the pulls after the end.
NewGen(id, url, url_params, return_type) ==
    [id          |-> id,
     pc          |-> "new",
     url         |-> url,
     url_params  |-> url_params,
     return_type |-> return_type,
     accessor    |-> "_build_generator",
     ids         |-> <<>>,
     body_data   |-> None,
     after       |-> None,
     first       |-> TRUE,
     data        |-> EmptyDict,
     idx         |-> 0,
     out         |-> <<>>,
     reqs        |-> <<>>,
     log         |-> <<>>,
     err         |-> NoExc,
     timedOut    |-> 0,
     late        |-> 0]

IdleGen ==
    [NewGen(0, "", EmptyDict, None) EXCEPT !.pc = "idle"]

\* return_type(**entry)
Construct(return_type, entry) ==
    [cls |-> return_type] @@ entry

\* variant: the first entry of the page is skipped
PageItemsSkipFirst(data) ==
    SubSeq(Get(data, "items", <<>>), 2, Len(Get(data, "items", <<>>)))

\* data.get("items", [])
PageItems(data) ==
    Get(data, "items", <<>>)

\* while _first or _after is not None
LoopCond(first, after) ==
    first \/ after # None

\* an exception leaves the generator body
Throw(s, e) ==
    [s EXCEPT !.pc = "error", !.err = e]

\* variant: pageToken is set only while the mapping has none
SendRequestKeepToken(s, sess, closed, token) ==
    LET params == IF "pageToken" \in DOMAIN s.url_params
                  THEN s.url_params
                  ELSE Put(s.url_params, "pageToken", s.after)
        req == ApiGetRequest(sess, build_url(base_url \o s.url, params),
                             s.body_data, token, closed)
        sent == [s EXCEPT !.url_params = params, !.reqs = Append(@, req)]
    IN  IF closed
        THEN Throw(sent, Exc("RuntimeError", "Session is closed"))
        ELSE [sent EXCEPT !.pc = "fetch"]

\* url_params["pageToken"] = _after; build_url; await method(self.session, ...)
\* A closed aiohttp session refuses the request with RuntimeError.
SendRequest(s, sess, closed, token) ==
    LET params == Put(s.url_params, "pageToken", s.after)
        req == ApiGetRequest(sess, build_url(base_url \o s.url, params),
                             s.body_data, token, closed)
        sent == [s EXCEPT !.url_params = params, !.reqs = Append(@, req)]
    IN  IF closed
        THEN Throw(sent, Exc("RuntimeError", "Session is closed"))
        ELSE [sent EXCEPT !.pc = "fetch"]

\* the head of the while loop
LoopHead(s, sess, closed, token) ==
    IF LoopCond(s.first, s.after)
    THEN SendRequest(s, sess, closed, token)
    ELSE [s EXCEPT !.pc = "done"]

\* variant: _first is not cleared
EndPageKeepFirst(s) ==
    [s EXCEPT !.after = Get(s.data, "nextPageToken", None)]

\* variant: a page without entries ends the sequence
EndPageStopOnEmpty(s) ==
    [s EXCEPT !.after = IF PageItems(s.data) = <<>>
                        THEN None
                        ELSE Get(s.data, "nextPageToken", None),
              !.first = FALSE]

\* _after = data.get("nextPageToken"); _first = False
EndPage(s) ==
    [s EXCEPT !.after = Get(s.data, "nextPageToken", None), !.first = FALSE]

\* yield return_type(**entry), for the i-th entry of the page
YieldEntry(s, i) ==
    [s EXCEPT !.pc = "yield", !.idx = i,
              !.out = Append(@, Construct(s.return_type, PageItems(s.data)[i]))]

\* variant: the items loop is left after its first entry
ItemsLoopBreak(s, i, sess, closed, token) ==
    IF i = 1 /\ i <= Len(PageItems(s.data))
    THEN YieldEntry(s, i)
    ELSE LoopHead(EndPage(s), sess, closed, token)

\* for entry in data.get("items", []), from the i-th entry on, then the rest
\* of the loop body and the loop head
ItemsLoop(s, i, sess, closed, token) ==
    IF i <= Len(PageItems(s.data))
    THEN YieldEntry(s, i)
    ELSE LoopHead(EndPage(s), sess, closed, token)

\* variant: no content type check
ContentTypeAny(response) ==
    TRUE

\* response.content_type != "application/json" is an error
ContentTypeOk(response) ==
    response.content_type = JSON

Logged(s, response, decoded) ==
    [s EXCEPT !.log = Append(@, [response |-> response, decoded |-> decoded])]

\* the request completes: the classifier, the content type check, the
\* decoding, and the items loop up to its first yield
OnResponse(s, response, sess, closed, token) ==
    LET checked == CheckRequestReturn(response)
    IN  IF Raised(checked)
        THEN Throw(Logged(s, response, checked.parsed), checked.raise)
        ELSE IF ~ContentTypeOk(checked.return)
        THEN Throw(Logged(s, response, FALSE),
                   Exc("YouTubeAPIError", "Unexpected response type"))
        ELSE ItemsLoop([Logged(s, response, TRUE) EXCEPT
                            !.data = Json(checked.return)],
                       1, sess, closed, token)

\* variant: the timed-out request is made again
OnTimeoutRetry(s) ==
    [s EXCEPT !.timedOut = Len(s.reqs), !.reqs = Append(@, s.reqs[Len(s.reqs)])]

\* except asyncio.TimeoutError: raise YouTubeBackendError("Timeout occurred")
OnTimeout(s) ==
    Throw([s EXCEPT !.timedOut = Len(s.reqs)],
          Exc("YouTubeBackendError", "Timeout occurred"))

\* variant: a pull after the end makes the last request again
AfterEndRetry(s) ==
    [s EXCEPT !.pc = "fetch", !.late = @ + 1,
              !.reqs = Append(@, s.reqs[Len(s.reqs)])]

\* a pull on a generator whose body has ended: StopAsyncIteration, no line
\* of the body runs again
AfterEnd(s) ==
    [s EXCEPT !.late = @ + 1]

(***************************************************************************)
(* The session lifecycle.                                                  *)
(***************************************************************************)
\* variant: every invocation makes a session of its own
NeedSessionAlways(sess) ==
    TRUE

\* if not self.session
NeedSession(sess) ==
    sess = None

\* ClientSession(): a new session object
NewSession(n) ==
    "session" \o ToString(n + 1)

\* variant: close() ignores _close_session
CloseGuardAnySession(sess, flag) ==
    sess # None

\* if self.session and self._close_session
CloseGuard(sess, flag) ==
    sess # None /\ flag

(***************************************************************************)
(* The initial state: the client after __init__, no engine invocation yet. *)
(***************************************************************************)
StartParams ==
    {[part |-> "snippet", mine |-> "true"],
     [part |-> "snippet", mine |-> "true", nextPageToken |-> None],
     [part |-> "snippet", mine |-> "true", nextPageToken |-> "c0"]}

\* the class attribute _user_auth_scopes: a dataclasses.Field object, no list
FieldDefault ==
    <<"<dataclasses.Field>">>

\* no set_user_authentication call yet
NoAuthCall ==
    [token |-> None, scopes |-> <<>>, refresh_token |-> None, raised |-> NoExc]

\* the client after YouTube(session=...), with auto_refresh_auth one of autos,
\* and the generator slots ids
InitClient(ids, autos) ==
    /\ supplied \in BOOLEAN
    /\ session = IF supplied THEN "external" ELSE None
    /\ close_session = FALSE
    /\ user_auth_token = None
    /\ user_auth_refresh_token = None
    /\ user_auth_scopes = FieldDefault
    /\ has_user_auth = FALSE
    /\ auto_refresh_auth \in autos
    /\ authCalls = 0
    /\ lastAuth = NoAuthCall
    /\ gen = [g \in ids |-> IdleGen]
    /\ created = 0
    /\ closedSessions = {}
    /\ closeCalls = 0
    /\ closeInvoked = 0
    /\ invocations = 0

\* YouTube(): no app_id, no app_secret, so auto_refresh_auth is False
Init ==
    InitClient(Gens, {FALSE})

(***************************************************************************)
(* The actions.                                                            *)
(***************************************************************************)
\* self._build_generator("GET", "subscriptions", url_params, YouTubeSubscription):
\* a new generator object; no line of the body runs.
Invoke(g, url_params) ==
    /\ invocations < MaxInvocations
    /\ gen[g].pc \in {"idle", "done", "error"}
    /\ gen' = [gen EXCEPT ![g] =
                  NewGen(invocations + 1, "subscriptions", url_params,
                         "YouTubeSubscription")]
    /\ invocations' = invocations + 1
    /\ UNCHANGED <<clientVars, credVars, sessionVars, supplied, closeInvoked>>

\* The body of _build_generator, for the generator g with the arguments of
\* s0, up to its first await.
StartBody(g, s0) ==
    /\ LET need == NeedSession(session)
           sess == IF need THEN NewSession(created) ELSE session
           s    == [s0 EXCEPT
                       !.after = Get(s0.url_params, "nextPageToken", None),
                       !.first = TRUE]
       IN  /\ session' = sess
           /\ close_session' = IF need THEN TRUE ELSE close_session
           /\ created' = IF need THEN created + 1 ELSE created
           /\ gen' = [gen EXCEPT ![g] =
                         LoopHead(s, sess, sess \in closedSessions, user_auth_token)]
    /\ UNCHANGED <<credVars, closedSessions, closeCalls, supplied, closeInvoked,
                   invocations>>

\* The consumer's first pull: the body runs up to its first await.
Start(g) ==
    /\ gen[g].pc = "new"
    /\ StartBody(g, gen[g])

\* variant: _after is kept on the client, so a page of one sequence moves
\* the cursor of every sequence
RespondSharedCursor(g, response) ==
    /\ gen[g].pc = "fetch"
    /\ response \in Responses(Len(gen[g].reqs))
    /\ LET t == OnResponse(gen[g], response, session,
                           session \in closedSessions, user_auth_token)
       IN  gen' = [h \in DOMAIN gen |->
                      IF h = g THEN t ELSE [gen[h] EXCEPT !.after = t.after]]
    /\ UNCHANGED <<clientVars, credVars, sessionVars, supplied, closeInvoked,
                   invocations>>

\* The request in flight completes with a response of the server.
Respond(g, response) ==
    /\ gen[g].pc = "fetch"
    /\ response \in Responses(Len(gen[g].reqs))
    /\ gen' = [gen EXCEPT ![g] =
                  OnResponse(gen[g], response, session,
                             session \in closedSessions, user_auth_token)]
    /\ UNCHANGED <<clientVars, credVars, sessionVars, supplied, closeInvoked,
                   invocations>>

\* The request in flight exceeds session_timeout.
Timeout(g) ==
    /\ gen[g].pc = "fetch"
    /\ gen' = [gen EXCEPT ![g] = OnTimeout(gen[g])]
    /\ UNCHANGED <<clientVars, credVars, sessionVars, supplied, closeInvoked,
                   invocations>>

\* The consumer pulls again after a record: the body resumes after the yield.
Resume(g) ==
    /\ gen[g].pc = "yield"
    /\ gen' = [gen EXCEPT ![g] =
                  ItemsLoop(gen[g], gen[g].idx + 1, session,
                            session \in closedSessions, user_auth_token)]
    /\ UNCHANGED <<clientVars, credVars, sessionVars, supplied, closeInvoked,
                   invocations>>

\* The consumer pulls a generator that has ended.
PullFinished(g) ==
    /\ gen[g].pc \in {"done", "error"}
    /\ gen[g].late < MaxLatePulls
    /\ gen' = [gen EXCEPT ![g] = AfterEnd(gen[g])]
    /\ UNCHANGED <<clientVars, credVars, sessionVars, supplied, closeInvoked,
                   invocations>>

\* YouTube.close
Close ==
    /\ closeInvoked < MaxCloses
    /\ closeInvoked' = closeInvoked + 1
    /\ IF CloseGuard(session, close_session)
       THEN /\ closedSessions' = closedSessions \cup {session}
            /\ closeCalls' = closeCalls + 1
       ELSE UNCHANGED <<closedSessions, closeCalls>>
    /\ UNCHANGED <<clientVars, credVars, gen, supplied, created, invocations>>

Next ==
    \/ \E g \in DOMAIN gen, url_params \in StartParams : Invoke(g, url_params)
    \/ \E g \in DOMAIN gen : Start(g)
    \/ \E g \in DOMAIN gen : \E response \in Responses(Len(gen[g].reqs)) :
           Respond(g, response)
    \/ \E g \in DOMAIN gen : Timeout(g)
    \/ \E g \in DOMAIN gen : Resume(g)
    \/ \E g \in DOMAIN gen : PullFinished(g)
    \/ Close

Spec ==
    Init /\ [][Next]_vars

(***************************************************************************)
(* The credential, YouTube.set_user_authentication.                        *)
(***************************************************************************)
\* variant: the scopes are not checked
ValidateAuthNoScopeCheck(scopes, refresh_token, auto) ==
    IF refresh_token = None /\ auto
    THEN Exc("ValueError",
             "refresh_token has to be provided when auto_refresh_auth is True")
    ELSE NoExc

\* variant: the refresh token is not checked
ValidateAuthNoRefreshCheck(scopes, refresh_token, auto) ==
    IF scopes = <<>>
    THEN Exc("MissingScopeError", "scope was not provided")
    ELSE NoExc

\* the two checks of set_user_authentication, in their order: the exception
\* raised, or NoExc
ValidateAuth(scopes, refresh_token, auto) ==
    IF refresh_token = None /\ auto
    THEN Exc("ValueError",
             "refresh_token has to be provided when auto_refresh_auth is True")
    ELSE IF scopes = <<>>
    THEN Exc("MissingScopeError", "scope was not provided")
    ELSE NoExc

Tokens == {"token1", "token2"}

ScopeLists == {<<>>, <<"youtube.readonly">>}

RefreshTokens == {None, "refresh1"}

\* await yt.set_user_authentication(token, scopes, refresh_token)
SetUserAuthentication(token, scopes, refresh_token) ==
    /\ authCalls < MaxAuthCalls
    /\ authCalls' = authCalls + 1
    /\ LET e == ValidateAuth(scopes, refresh_token, auto_refresh_auth)
       IN  /\ lastAuth' = [token |-> token, scopes |-> scopes,
                           refresh_token |-> refresh_token, raised |-> e]
           /\ IF e # NoExc
              THEN UNCHANGED <<user_auth_token, user_auth_refresh_token,
                               user_auth_scopes, has_user_auth>>
              ELSE /\ user_auth_token' = token
                   /\ user_auth_refresh_token' = refresh_token
                   /\ user_auth_scopes' = scopes
                   /\ has_user_auth' = TRUE
    /\ UNCHANGED <<auto_refresh_auth, clientVars, sessionVars, gen, supplied,
                   closeInvoked, invocations>>

(***************************************************************************)
(* The resource accessors that take a list of IDs: YouTube.get_videos and  *)
(* YouTube.get_channels (through _get_channels).  Each is an async         *)
(* generator around _build_generator that passes its records on.           *)
(***************************************************************************)
\* ",".join(ids)
RECURSIVE Join(_)
Join(ids) ==
    IF ids = <<>> THEN ""
    ELSE IF Len(ids) = 1 THEN ids[1]
    ELSE ids[1] \o "," \o Join(Tail(ids))

\* the check an accessor makes on its list before it builds the parameters:
\* the exception raised, or NoExc
AccessorCheck(accessor, ids) ==
    IF accessor = "get_videos" /\ ids = <<>>
    THEN Exc("ValueError", "at least one video id has to be set")
    ELSE NoExc

\* the arguments an accessor passes to _build_generator
AccessorArgs(s) ==
    IF s.accessor = "get_videos"
    THEN [s EXCEPT !.url = "videos",
                   !.url_params = [part |-> "snippet", id |-> Join(s.ids)],
                   !.return_type = "YouTubeVideo"]
    ELSE [s EXCEPT !.url = "channels",
                   !.url_params = [part |-> "snippet,contentDetails,statistics",
                                   id |-> Join(s.ids)],
                   !.return_type = "YouTubeChannel"]

Accessors == {"get_videos", "get_channels"}

IdLists == {<<>>, <<"id1">>, <<"id1", "id2">>}

\* yt.get_videos(ids) or yt.get_channels(ids): a new generator object; no
\* line of the body runs.
CallAccessor(g, accessor, ids) ==
    /\ invocations < MaxInvocations
    /\ gen[g].pc \in {"idle", "done", "error"}
    /\ gen' = [gen EXCEPT ![g] =
                  [NewGen(invocations + 1, "", EmptyDict, None) EXCEPT
                      !.pc = "called", !.accessor = accessor, !.ids = ids]]
    /\ invocations' = invocations + 1
    /\ UNCHANGED <<clientVars, credVars, sessionVars, supplied, closeInvoked>>

\* The consumer's first pull on an accessor: its check, then the body of
\* _build_generator up to its first await.
StartAccessor(g) ==
    /\ gen[g].pc = "called"
    /\ IF AccessorCheck(gen[g].accessor, gen[g].ids) # NoExc
       THEN /\ gen' = [gen EXCEPT ![g] =
                          Throw(gen[g], AccessorCheck(gen[g].accessor, gen[g].ids))]
            /\ UNCHANGED <<clientVars, credVars, sessionVars, supplied,
                           closeInvoked, invocations>>
       ELSE StartBody(g, AccessorArgs(gen[g]))

(***************************************************************************)
(* A smaller server for the specifications below: pages of one entry, at   *)
(* most SharedPages of them, and one failure.                              *)
(***************************************************************************)
SharedResponses(k) ==
    IF k < SharedPages
    THEN {Response(200, JSON, [items |-> ItemList(k, 1), nextPageToken |-> CursorOf(k)]),
          Response(200, JSON, [items |-> ItemList(k, 1)]),
          Response(401, JSON, ErrorBody(401, "Invalid credentials", "auth error"))}
    ELSE IF k = SharedPages
    THEN {Response(200, JSON, [items |-> ItemList(k, 1)]),
          Response(401, JSON, ErrorBody(401, "Invalid credentials", "auth error"))}
    ELSE {}

(***************************************************************************)
(* The client with its credential set and changed while a sequence runs.   *)
(***************************************************************************)
InitAuth ==
    InitClient(Gens, BOOLEAN)

NextAuth ==
    \/ \E token \in Tokens, scopes \in ScopeLists, refresh_token \in RefreshTokens :
           SetUserAuthentication(token, scopes, refresh_token)
    \/ \E g \in DOMAIN gen : Invoke(g, [part |-> "snippet", mine |-> "true"])
    \/ \E g \in DOMAIN gen : Start(g)
    \/ \E g \in DOMAIN gen : \E response \in SharedResponses(Len(gen[g].reqs)) :
           Respond(g, response)
    \/ \E g \in DOMAIN gen : Resume(g)

SpecAuth ==
    InitAuth /\ [][NextAuth]_vars

(***************************************************************************)
(* The client used through get_videos and get_channels.                    *)
(***************************************************************************)
NextAccessors ==
    \/ \E g \in DOMAIN gen, accessor \in Accessors, ids \in IdLists :
           CallAccessor(g, accessor, ids)
    \/ \E g \in DOMAIN gen : StartAccessor(g)
    \/ \E g \in DOMAIN gen : \E response \in SharedResponses(Len(gen[g].reqs)) :
           Respond(g, response)
    \/ \E g \in DOMAIN gen : Resume(g)

SpecAccessors ==
    Init /\ [][NextAccessors]_vars

(***************************************************************************)
(* Two engine invocations on one client, each with its own parameter       *)
(* mapping, interleaved with each other and with close().                  *)
(***************************************************************************)
Pair == {1, 2}

\* the parameter mapping of each of the two invocations
PairParams(g) ==
    IF g = 1
    THEN [part |-> "snippet", mine |-> "true"]
    ELSE [part |-> "snippet", mine |-> "true", nextPageToken |-> "c0"]

InitPair ==
    InitClient(Pair, {FALSE})

NextPair ==
    \/ \E g \in DOMAIN gen : Invoke(g, PairParams(g))
    \/ \E g \in DOMAIN gen : Start(g)
    \/ \E g \in DOMAIN gen : \E response \in SharedResponses(Len(gen[g].reqs)) :
           Respond(g, response)
    \/ \E g \in DOMAIN gen : Resume(g)
    \/ Close

SpecPair ==
    InitPair /\ [][NextPair]_vars

(***************************************************************************)
(* A consumer that keeps pulling and a server that answers every request:  *)
(* the pages of the server with at most one entry, with a cursor for fewer *)
(* than MaxPages requests and without one, and one failure.                *)
(***************************************************************************)
LiveResponses(k) ==
    {r \in Responses(k) :
        /\ r.status \in {200, 401}
        /\ r.content_type = JSON
        /\ Len(Get(r.body, "items", <<>>)) <= 1}

NextLive ==
    \/ \E g \in DOMAIN gen, url_params \in StartParams : Invoke(g, url_params)
    \/ \E g \in DOMAIN gen : Start(g)
    \/ \E g \in DOMAIN gen : \E response \in LiveResponses(Len(gen[g].reqs)) :
           Respond(g, response)
    \/ \E g \in DOMAIN gen : Timeout(g)
    \/ \E g \in DOMAIN gen : Resume(g)

\* the consumer's pulls and the completion of a request in flight are not
\* postponed for ever
Fairness ==
    \A g \in Gens :
        /\ WF_vars(Start(g))
        /\ WF_vars(Resume(g))
        /\ WF_vars(Timeout(g)
                   \/ \E response \in LiveResponses(Len(gen[g].reqs)) :
                          Respond(g, response))

SpecLive ==
    Init /\ [][NextLive]_vars /\ Fairness

(***************************************************************************)
(* What the server sent, read off the log of a sequence.                   *)
(***************************************************************************)
RECURSIVE Concat(_)
Concat(seqs) ==
    IF seqs = <<>> THEN <<>> ELSE Head(seqs) \o Concat(Tail(seqs))

SuccessPage(r) ==
    r.status = 200 /\ r.content_type = JSON

ItemsOf(r) ==
    IF "items" \in DOMAIN r.body THEN r.body.items ELSE <<>>

CursorOfPage(r) ==
    IF "nextPageToken" \in DOMAIN r.body THEN r.body.nextPageToken ELSE None

\* the records of the items of the first n responses, in order
RecordsOfPages(s, n) ==
    LET e == Concat([i \in 1..n |-> ItemsOf(s.log[i].response)])
    IN  [i \in 1..Len(e) |-> [cls |-> s.return_type, id |-> e[i].id]]

(***************************************************************************)
(* C1: a sequence that ended normally after N >= 1 successful JSON pages   *)
(* whose cursors chain c1 -> ... -> null (only the last page has no        *)
(* cursor) has delivered exactly the concatenation of the pages' items, in *)
(* page order and in-page order, and has made exactly N requests.          *)
(***************************************************************************)
C1_Concatenation ==
    \A g \in DOMAIN gen :
        LET s == gen[g]
            N == Len(s.log)
        IN  (s.pc = "done" /\ \A i \in 1..N : SuccessPage(s.log[i].response))
            => /\ N >= 1
               /\ \A i \in 1..N :
                     (CursorOfPage(s.log[i].response) = None) <=> (i = N)
               /\ s.out = RecordsOfPages(s, N)
               /\ Len(s.reqs) = N

C1_Witness ==
    \E g \in DOMAIN gen :
        /\ gen[g].pc = "done"
        /\ Len(gen[g].log) >= 3
        /\ \A i \in 1..Len(gen[g].log) : SuccessPage(gen[g].log[i].response)
        /\ Len(gen[g].out) >= 4

(***************************************************************************)
(* C2: when the first response is a page without nextPageToken, the        *)
(* sequence makes exactly one request and ends after that page's records,  *)
(* with a start cursor in the parameter mapping and without one.           *)
(***************************************************************************)
C2_SinglePage ==
    \A g \in DOMAIN gen :
        LET s == gen[g]
        IN  (/\ Len(s.log) >= 1
             /\ SuccessPage(s.log[1].response)
             /\ CursorOfPage(s.log[1].response) = None)
            => /\ Len(s.reqs) = 1
               /\ Len(s.log) = 1
               /\ s.pc \in {"yield", "done"}
               /\ s.pc = "done" => s.out = RecordsOfPages(s, 1)

C2_Witness ==
    \E g \in DOMAIN gen :
        /\ gen[g].pc = "done"
        /\ Get(gen[g].url_params, "nextPageToken", None) = "c0"
        /\ Len(gen[g].reqs) = 1
        /\ gen[g].reqs[1].url.query["pageToken"] = "c0"
        /\ CursorOfPage(gen[g].log[1].response) = None
        /\ Len(gen[g].out) >= 1

(***************************************************************************)
(* The classifier's table, by status.                                      *)
(***************************************************************************)
ClassifierErrorStatus(status) ==
    status = 500 \/ (400 <= status /\ status < 500)

ExpectedKind(status) ==
    CASE status = 500 -> "YouTubeBackendError"
      [] status = 400 -> "YouTubeAPIError"
      [] status = 404 -> "YouTubeResourceNotFoundError"
      [] status = 401 -> "UnauthorizedError"
      [] status = 403 -> "ForbiddenError"
      [] OTHER        -> "YouTubeAPIError"

\* the message of the 400 error: the body's message field itself
MessageAsClaimed(body) ==
    IF "message" \in DOMAIN body THEN body.message ELSE "Bad Request"

\* the message of the 400 error: "Bad Request", then " - " and the field
MessageWithPrefix(body) ==
    IF "message" \in DOMAIN body
    THEN "Bad Request - " \o body.message
    ELSE "Bad Request"

\* Every response a sequence received had exactly the outcome of the table:
\* an error status ended the sequence with the error of its kind (for 400
\* with the message BadRequest gives, for 404 without decoding the body);
\* any other status was returned to the engine, which went on with it.
ClassifierTable(BadRequest(_)) ==
    \A g \in DOMAIN gen :
        LET s == gen[g]
        IN  \A i \in 1..Len(s.log) :
                LET r == s.log[i].response
                IN  IF ClassifierErrorStatus(r.status)
                    THEN /\ i = Len(s.log)
                         /\ s.pc = "error"
                         /\ s.err.type = ExpectedKind(r.status)
                         /\ r.status = 400 => s.err.msg = BadRequest(r.body)
                         /\ r.status = 404 => ~s.log[i].decoded
                    ELSE IF r.content_type = JSON
                    THEN /\ s.log[i].decoded
                         /\ i = Len(s.log) => s.data = r.body
                    ELSE /\ i = Len(s.log)
                         /\ s.err = Exc("YouTubeAPIError", "Unexpected response type")

(***************************************************************************)
(* C3, as claimed: one outcome per status; 500 -> Backend error; 400 ->    *)
(* API error whose message is the body's message field if present, else    *)
(* "Bad Request"; 404 -> Resource-not-found error without parsing the      *)
(* body; 401 -> Unauthorized; 403 -> Forbidden; any other 4xx -> API       *)
(* error; every other status -> the response is returned unchanged.        *)
(***************************************************************************)
C3_AsClaimed ==
    ClassifierTable(MessageAsClaimed)

(***************************************************************************)
(* C3, amended: the same table, except that the message of the 400 error   *)
(* is "Bad Request - <m>" when the body has the message field m, and       *)
(* "Bad Request" when it has none.                                         *)
(***************************************************************************)
C3_Classifier ==
    ClassifierTable(MessageWithPrefix)

C3_Witness ==
    \E g \in DOMAIN gen :
        /\ gen[g].pc = "error"
        /\ Len(gen[g].log) >= 2
        /\ gen[g].log[Len(gen[g].log)].response.status = 400
        /\ gen[g].log[Len(gen[g].log)].response.body = [message |-> "invalid part"]
        /\ gen[g].err = Exc("YouTubeAPIError", "Bad Request - invalid part")

(***************************************************************************)
(* C4: a 403 response with body {"error":{"errors":[{"message": m}, ...]}} *)
(* ends the sequence with ForbiddenError carrying exactly m; no record of  *)
(* that page is delivered, and on the first page no record at all.         *)
(***************************************************************************)
C4_Forbidden ==
    \A g \in DOMAIN gen :
        LET s == gen[g]
        IN  \A i \in 1..Len(s.log) :
                LET r == s.log[i].response
                IN  r.status = 403
                    => /\ i = Len(s.log)
                       /\ s.pc = "error"
                       /\ s.err = Exc("ForbiddenError", r.body.error.errors[1].message)
                       /\ s.out = RecordsOfPages(s, i - 1)
                       /\ i = 1 => s.out = <<>>

C4_Witness ==
    \E g \in DOMAIN gen :
        /\ gen[g].pc = "error"
        /\ Len(gen[g].log) = 1
        /\ gen[g].log[1].response.status = 403
        /\ gen[g].err = Exc("ForbiddenError", "insufficient permission")
        /\ gen[g].out = <<>>

(***************************************************************************)
(* C5: whenever a page fetch fails (the response status is a 4xx or a 5xx, *)
(* the fetch times out, or the content type is not JSON) the sequence ends *)
(* with a raised error, never with a normal end.                           *)
(***************************************************************************)
FailedFetch(r) ==
    (400 <= r.status /\ r.status < 600) \/ r.content_type # JSON

C5_NoSilentTruncation ==
    \A g \in DOMAIN gen :
        LET s == gen[g]
        IN  (\/ s.timedOut > 0
             \/ \E i \in 1..Len(s.log) : FailedFetch(s.log[i].response))
            => s.pc = "error"

(***************************************************************************)
(* C6: a response that passed the classifier and declares a content type   *)
(* other than application/json ends the sequence with                      *)
(* APIError("Unexpected response type"); its body is not decoded and none  *)
(* of its items is delivered, even though the body holds an items list.    *)
(***************************************************************************)
C6_ContentType ==
    \A g \in DOMAIN gen :
        LET s == gen[g]
        IN  \A i \in 1..Len(s.log) :
                LET r == s.log[i].response
                IN  (~ClassifierErrorStatus(r.status) /\ r.content_type # JSON)
                    => /\ i = Len(s.log)
                       /\ s.pc = "error"
                       /\ s.err = Exc("YouTubeAPIError", "Unexpected response type")
                       /\ ~s.log[i].decoded
                       /\ s.out = RecordsOfPages(s, i - 1)

C6_Witness ==
    \E g \in DOMAIN gen :
        LET n == Len(gen[g].log)
        IN  /\ n >= 2
            /\ gen[g].pc = "error"
            /\ gen[g].log[n].response.status = 200
            /\ gen[g].log[n].response.content_type = "text/html"
            /\ Len(ItemsOf(gen[g].log[n].response)) >= 1
            /\ Len(gen[g].out) >= 1

(***************************************************************************)
(* C7: when the request for page k exceeds session_timeout, the sequence   *)
(* raises BackendError("Timeout occurred"); the records delivered are      *)
(* exactly the items of pages 1..k-1, and the request is not made again,   *)
(* however often the consumer pulls.                                       *)
(***************************************************************************)
C7_Timeout ==
    \A g \in DOMAIN gen :
        LET s == gen[g]
            k == s.timedOut
        IN  k > 0
            => /\ s.pc = "error"
               /\ s.err = Exc("YouTubeBackendError", "Timeout occurred")
               /\ Len(s.log) = k - 1
               /\ s.out = RecordsOfPages(s, k - 1)
               /\ Len(s.reqs) = k

C7_Witness ==
    \E g \in DOMAIN gen :
        /\ gen[g].timedOut >= 2
        /\ gen[g].pc = "error"
        /\ Len(gen[g].out) >= 2
        /\ gen[g].late >= 1

(***************************************************************************)
(* C8: once an error was raised on page k the sequence is terminal: the    *)
(* records delivered are those of pages 1..k-1, and no pull changes the    *)
(* error, the records delivered or the requests made.                      *)
(***************************************************************************)
\* the pages before the one the error was raised on
PagesBeforeError(s) ==
    IF Len(s.reqs) = Len(s.log) THEN Len(s.log) - 1 ELSE Len(s.log)

C8_Terminal ==
    /\ [](\A g \in DOMAIN gen :
             gen[g].pc = "error"
             => gen[g].out = RecordsOfPages(gen[g], PagesBeforeError(gen[g])))
    /\ [][\A g \in DOMAIN gen :
             (gen[g].pc = "error" /\ gen'[g].id = gen[g].id)
             => /\ gen'[g].pc = "error"
                /\ gen'[g].err = gen[g].err
                /\ gen'[g].out = gen[g].out
                /\ gen'[g].reqs = gen[g].reqs]_vars

C8_Witness ==
    \E g \in DOMAIN gen :
        /\ gen[g].pc = "error"
        /\ gen[g].late >= 1
        /\ Len(gen[g].log) >= 2
        /\ Len(gen[g].out) >= 1

(***************************************************************************)
(* C9: a client constructed with a session never closes it, whatever       *)
(* engine invocations and close() calls follow: it creates no session of   *)
(* its own, never sets _close_session and never calls session.close().     *)
(***************************************************************************)
C9_SuppliedNeverClosed ==
    supplied
    => /\ session = "external"
       /\ ~close_session
       /\ created = 0
       /\ closeCalls = 0
       /\ closedSessions = {}

C9_Witness ==
    /\ supplied
    /\ closeInvoked >= 2
    /\ invocations >= 2
    /\ \E g \in DOMAIN gen : gen[g].pc = "done" /\ Len(gen[g].reqs) >= 1

(***************************************************************************)
(* C10: on a client constructed without a session, over any sequence of    *)
(* close() calls the release of the session the engine created is          *)
(* performed exactly once: the first close() after the creation releases   *)
(* it, every later close() does nothing.                                   *)
(***************************************************************************)
C10_ReleasedOnce ==
    ~supplied => closeCalls <= 1

(***************************************************************************)
(* Steps of set_user_authentication, read off authCalls and lastAuth.      *)
(***************************************************************************)
\* this step is a call of set_user_authentication
AuthCallStep ==
    authCalls' = authCalls + 1

StoredCredentialUnchanged ==
    /\ user_auth_token' = user_auth_token
    /\ user_auth_refresh_token' = user_auth_refresh_token
    /\ user_auth_scopes' = user_auth_scopes
    /\ has_user_auth' = has_user_auth

(***************************************************************************)
(* C11, as claimed: set_user_authentication with an empty scopes list      *)
(* raises MissingScopeError and leaves the stored token, refresh token,    *)
(* scopes and has-user-auth flag as they were.                             *)
(***************************************************************************)
C11_AsClaimed ==
    [][(AuthCallStep /\ lastAuth'.scopes = <<>>)
       => /\ lastAuth'.raised.type = "MissingScopeError"
          /\ StoredCredentialUnchanged]_vars

(***************************************************************************)
(* C11, amended: set_user_authentication with an empty scopes list raises  *)
(* a validation error and leaves the stored credential as it was; the      *)
(* error is ValueError when auto-refresh is enabled and no refresh token   *)
(* is given (that check comes first), and MissingScopeError otherwise.     *)
(***************************************************************************)
C11_EmptyScopes ==
    [][(AuthCallStep /\ lastAuth'.scopes = <<>>)
       => /\ lastAuth'.raised.type =
                 IF auto_refresh_auth /\ lastAuth'.refresh_token = None
                 THEN "ValueError"
                 ELSE "MissingScopeError"
          /\ StoredCredentialUnchanged]_vars

C11_Witness ==
    /\ authCalls >= 2
    /\ lastAuth.scopes = <<>>
    /\ lastAuth.raised.type = "MissingScopeError"
    /\ has_user_auth
    /\ user_auth_token \in Tokens
    /\ user_auth_token # lastAuth.token
    /\ user_auth_scopes = <<"youtube.readonly">>

(***************************************************************************)
(* C12: with auto-refresh enabled, in every state any sequence of          *)
(* set_user_authentication calls reaches, a stored credential has a        *)
(* refresh token; a call without one raises and changes nothing.           *)
(***************************************************************************)
C12_RefreshPresent ==
    /\ [](auto_refresh_auth /\ has_user_auth => user_auth_refresh_token # None)
    /\ [][(AuthCallStep /\ auto_refresh_auth /\ lastAuth'.refresh_token = None)
          => /\ lastAuth'.raised # NoExc
             /\ StoredCredentialUnchanged]_vars

C12_Witness ==
    /\ auto_refresh_auth
    /\ has_user_auth
    /\ user_auth_refresh_token = "refresh1"
    /\ lastAuth.refresh_token = None
    /\ lastAuth.raised.type = "ValueError"
    /\ lastAuth.scopes # <<>>

(***************************************************************************)
(* C18: every request carries Authorization: Bearer <token>, <token> being *)
(* the stored token at the moment the request is made ("None" when none is *)
(* stored); the stored token is the one of the most recent successful      *)
(* set_user_authentication, also between two pages of a sequence, and no   *)
(* step of the engine changes the stored credential.                       *)
(***************************************************************************)
C18_BearerToken ==
    [][/\ \A g \in DOMAIN gen :
              Len(gen'[g].reqs) > Len(gen[g].reqs)
              => /\ Len(gen'[g].reqs) = Len(gen[g].reqs) + 1
                 /\ gen'[g].reqs[Len(gen'[g].reqs)].headers =
                        [Authorization |->
                            IF user_auth_token = None
                            THEN "Bearer None"
                            ELSE "Bearer " \o user_auth_token]
       /\ IF AuthCallStep /\ lastAuth'.raised = NoExc
          THEN user_auth_token' = lastAuth'.token
          ELSE StoredCredentialUnchanged]_vars

C18_Witness ==
    \E g \in DOMAIN gen :
        /\ Len(gen[g].reqs) = 2
        /\ gen[g].reqs[1].headers = [Authorization |-> "Bearer None"]
        /\ gen[g].reqs[2].headers = [Authorization |-> "Bearer token2"]
        /\ authCalls = 2
        /\ lastAuth.raised # NoExc

(***************************************************************************)
(* C13: the sequence is lazy and fetches one page at a time: no request is *)
(* made before the first pull; at most one request is outstanding; while   *)
(* the consumer holds a record and has not pulled again, none is; and when *)
(* the request for the next page is made, every record of every page       *)
(* received so far has been delivered.                                     *)
(***************************************************************************)
C13_Lazy ==
    \A g \in DOMAIN gen :
        LET s == gen[g]
        IN  /\ s.pc \in {"idle", "new"} => s.reqs = <<>>
            /\ Len(s.log) <= Len(s.reqs)
            /\ Len(s.reqs) <= Len(s.log) + 1
            /\ s.pc = "yield" => Len(s.reqs) = Len(s.log)
            /\ s.pc = "fetch" => Len(s.reqs) = Len(s.log) + 1
            /\ Len(s.reqs) = Len(s.log) + 1 => s.out = RecordsOfPages(s, Len(s.log))

C13_Witness ==
    \E g \in DOMAIN gen :
        /\ gen[g].pc = "yield"
        /\ Len(gen[g].log) >= 2
        /\ gen[g].idx < Len(ItemsOf(gen[g].log[Len(gen[g].log)].response))
        /\ CursorOfPage(gen[g].log[Len(gen[g].log)].response) # None
        /\ Len(gen[g].reqs) = Len(gen[g].log)

(***************************************************************************)
(* C16: the first request of a sequence carries pageToken equal to the     *)
(* "nextPageToken" entry of the caller's parameter mapping, and carries    *)
(* none when that entry is absent or null; every later request carries the *)
(* nextPageToken of the response just before it.                           *)
(***************************************************************************)
C16_CursorHandOff ==
    \A g \in DOMAIN gen :
        LET s == gen[g]
        IN  \A k \in 1..Len(s.reqs) :
                LET q == s.reqs[k].url.query
                    cursor == IF k = 1
                              THEN IF "nextPageToken" \in DOMAIN s.url_params
                                   THEN s.url_params.nextPageToken
                                   ELSE None
                              ELSE CursorOfPage(s.log[k - 1].response)
                IN  /\ k > 1 => cursor # None
                    /\ IF cursor = None
                       THEN "pageToken" \notin DOMAIN q
                       ELSE "pageToken" \in DOMAIN q /\ q.pageToken = cursor

C16_Witness ==
    \E g \in DOMAIN gen :
        /\ gen[g].id = 2
        /\ Len(gen[g].reqs) = 3
        /\ "pageToken" \notin DOMAIN gen[g].reqs[1].url.query
        /\ gen[g].reqs[2].url.query.pageToken = "c1"
        /\ gen[g].reqs[3].url.query.pageToken = "c2"

(***************************************************************************)
(* C15: get_videos and get_channels reject an empty list of IDs with a     *)
(* validation error and make no HTTP request for it.                       *)
(***************************************************************************)
C15_EmptyIdsRejected ==
    \A g \in DOMAIN gen :
        LET s == gen[g]
        IN  (s.accessor \in Accessors /\ s.ids = <<>> /\ s.pc # "called")
            => /\ s.pc = "error"
               /\ s.err.type = "ValueError"
               /\ s.reqs = <<>>

(***************************************************************************)
(* A sequence run alone: the same call on a client of its own, given the   *)
(* responses the sequence has received and pulled as often.                *)
(***************************************************************************)
\* the consumer pulls until the body leaves the yield or n records are out
RECURSIVE Drain(_, _, _, _)
Drain(a, n, sess, token) ==
    IF a.pc = "yield" /\ Len(a.out) < n
    THEN Drain(ItemsLoop(a, a.idx + 1, sess, FALSE, token), n, sess, token)
    ELSE a

\* the responses i.. of the log of s, given to the sequence a
RECURSIVE Replay(_, _, _, _, _)
Replay(a, s, i, sess, token) ==
    IF i > Len(s.log) \/ a.pc # "fetch"
    THEN a
    ELSE Replay(Drain(OnResponse(a, s.log[i].response, sess, FALSE, token),
                      IF i = Len(s.log) /\ s.pc = "yield"
                      THEN Len(s.out) ELSE Len(s.out) + 1,
                      sess, token),
                s, i + 1, sess, token)

Alone(g) ==
    LET s    == gen[g]
        sess == IF supplied THEN "external" ELSE NewSession(0)
        a0   == NewGen(s.id, "subscriptions", PairParams(g), "YouTubeSubscription")
        a1   == LoopHead([a0 EXCEPT
                             !.after = Get(a0.url_params, "nextPageToken", None),
                             !.first = TRUE],
                         sess, FALSE, user_auth_token)
    IN  Replay(a1, s, 1, sess, user_auth_token)

(***************************************************************************)
(* C14: two engine invocations on one client, each with its own parameter  *)
(* mapping, interleaved at any page fetch or yield: as long as close() has *)
(* released no session, the position, the cursor, the requests and the     *)
(* delivered records of each are those of the same sequence run alone.     *)
(***************************************************************************)
C14_Independent ==
    closedSessions = {}
    => \A g \in DOMAIN gen :
           gen[g].pc \notin {"idle", "new"}
           => /\ gen[g].pc = Alone(g).pc
              /\ gen[g].after = Alone(g).after
              /\ gen[g].reqs = Alone(g).reqs
              /\ gen[g].out = Alone(g).out

C14_Witness ==
    /\ closedSessions = {}
    /\ gen[1].pc = "fetch"
    /\ gen[2].pc = "yield"
    /\ Len(gen[1].reqs) = 2
    /\ Len(gen[2].reqs) = 2
    /\ gen[1].reqs[2].url.query.pageToken = "c1"
    /\ gen[2].reqs[1].url.query.pageToken = "c0"
    /\ Len(gen[1].out) = 1
    /\ Len(gen[2].out) = 2

(***************************************************************************)
(* C19: on a client constructed without a session, however the engine      *)
(* invocations interleave, at most one session is ever created, every      *)
(* request of every invocation is made on it, and it is the session that   *)
(* close() releases.                                                       *)
(***************************************************************************)
C19_OneSession ==
    ~supplied
    => /\ created <= 1
       /\ \A g \in DOMAIN gen : \A k \in 1..Len(gen[g].reqs) :
              gen[g].reqs[k].session = NewSession(0)
       /\ created = 0 => session = None
       /\ created >= 1 => /\ session = NewSession(0)
                          /\ CloseGuard(session, close_session)

C19_Witness ==
    /\ ~supplied
    /\ created = 1
    /\ gen[1].id = 2
    /\ gen[2].id = 1
    /\ Len(gen[1].reqs) >= 1
    /\ Len(gen[2].reqs) >= 2
    /\ gen[1].reqs[1].session = gen[2].reqs[2].session

(***************************************************************************)
(* C20: no page request is ever made on a session that close() has         *)
(* released, neither by a sequence continued after close() nor by an       *)
(* invocation started after it.                                            *)
(***************************************************************************)
C20_NoFetchOnReleased ==
    \A g \in DOMAIN gen : \A k \in 1..Len(gen[g].reqs) :
        ~gen[g].reqs[k].closed

(***************************************************************************)
(* C17: when the consumer keeps pulling and the server ends up sending a   *)
(* page without nextPageToken or a failing response, every started         *)
(* sequence terminates, normally or with an error; and the engine has no   *)
(* cap of its own: as long as every page received carries a cursor, once   *)
(* the records of the pages are delivered the request for the next page is *)
(* out, also after pages without entries.                                  *)
(***************************************************************************)
\* every response received so far is a JSON page that carries a cursor
AllPagesContinue(s) ==
    \A i \in 1..Len(s.log) :
        SuccessPage(s.log[i].response) /\ CursorOfPage(s.log[i].response) # None

C17_Terminates ==
    /\ \A g \in Gens :
           (gen[g].pc \in {"new", "fetch", "yield"})
               ~> (gen[g].pc \in {"done", "error"})
    /\ [](\A g \in DOMAIN gen :
             (/\ gen[g].pc \in {"fetch", "done", "error"}
              /\ gen[g].timedOut = 0
              /\ AllPagesContinue(gen[g]))
             => /\ gen[g].pc = "fetch"
                /\ Len(gen[g].reqs) = Len(gen[g].log) + 1)

C17_Witness ==
    \E g \in DOMAIN gen :
        /\ gen[g].pc = "done"
        /\ Len(gen[g].log) = 3
        /\ AllPagesContinue([gen[g] EXCEPT !.log = SubSeq(@, 1, 2)])
        /\ ItemsOf(gen[g].log[1].response) = <<>>
        /\ ItemsOf(gen[g].log[2].response) = <<>>
        /\ Len(gen[g].reqs) = 3

====
